---- MODULE Spec2Model ----
(***************************************************************************)
(* The Qubole/Hive execution state machine (HandleExecutionState and its   *)
(* three transformers), the phase projector, Abort and Finalize, together  *)
(* with the collaborators they call: the resource manager (allocator), the *)
(* Qubole client (backend), the auto-refresh cache and the orchestrator    *)
(* that persists the state a tick returns.                                 *)
(***************************************************************************)
EXTENDS Integers, Sequences, FiniteSets, TLC

VARIABLES
    state,      \* task -> the ExecutionState the orchestrator has persisted
    lifecycle,  \* task -> "unscheduled" | "running" | "aborted" | "finalized"
    held,       \* allocator: set of <<namespace, token>> currently allocated
    cache,      \* auto-refresh cache: unique id -> ExecutionStateCacheItem
    commands,   \* backend: the commands created, [ID, Owner, Label]
    killed,     \* backend: the command ids KillCommand has cancelled
    last        \* the last call the orchestrator made, with what it returned

vars == <<state, lifecycle, held, cache, commands, killed, last>>

----------------------------------------------------------------------------
\* Bounds of the model.

MaxTime == 2                  \* time.Now() reads 1..MaxTime
MaxCreationFailures == 7      \* failed creations explored per task
MaxSyncFailures == 1          \* failed background syncs explored per entry
MaxCommands == 2              \* commands the backend creates in one run
FirstCommandId == 9           \* the id the backend gives its first command
NamespaceQuota == 1           \* tokens the allocator grants per namespace

Tasks == {"t1", "t2", "t3"}
Times == 1..MaxTime

----------------------------------------------------------------------------
\* ExecutionPhase (iota order) and ExecutionState.

PhaseNotStarted == 0
PhaseQueued == 1
PhaseSubmitted == 2
PhaseQuerySucceeded == 3
PhaseQueryFailed == 4

\* The zero value ExecutionState{}: Go strings are sequences of characters,
\* the zero time.Time is 0.
ZeroState ==
    [Phase |-> PhaseNotStarted, CommandId |-> <<>>, URI |-> <<>>,
     SyncFailureCount |-> 0, CreationFailureCount |-> 0,
     AllocationTokenRequestStartTime |-> 0]

\* Mutant: the guard forgets the failed phase.
InTerminalState_OnlySucceeded(e) ==
    e.Phase = PhaseQuerySucceeded

InTerminalState(e) ==
    e.Phase = PhaseQuerySucceeded \/ e.Phase = PhaseQueryFailed

IsNotYetSubmitted(e) ==
    IF e.Phase = PhaseNotStarted \/ e.Phase = PhaseQueued THEN TRUE ELSE FALSE

\* strconv.FormatInt(n, 10)
DecimalDigits == <<"0", "1", "2", "3", "4", "5", "6", "7", "8", "9">>

RECURSIVE FormatUint(_)
FormatUint(n) ==
    IF n < 10 THEN <<DecimalDigits[n + 1]>>
    ELSE Append(FormatUint(n \div 10), DecimalDigits[(n % 10) + 1])

FormatInt(n) == IF n < 0 THEN <<"-">> \o FormatUint(-n) ELSE FormatUint(n)

----------------------------------------------------------------------------
\* Error kinds (the taxonomy codes; "Untagged" is an error passed on as the
\* collaborator returned it, "nil" is no error).

NoError == "nil"
ResourceManagerFailure == "ResourceManagerFailure"
RuntimeFailure == "RuntimeFailure"
BadTaskSpecification == "BadTaskSpecification"
CacheFailed == "CacheFailed"
DownstreamSystemError == "DownstreamSystemError"
Untagged == "Untagged"

\* One collaborator call: which function, its arguments and its answer.
Call(fn, ns, id, cmd, seed, res) ==
    [fn |-> fn, ns |-> ns, id |-> id, cmd |-> cmd, seed |-> seed, res |-> res]

----------------------------------------------------------------------------
\* Task metadata and the Qubole configuration.

DefaultClusterPrimaryLabel == "default"

\* config.GetQuboleConfig(): the cluster configs (primary label and the
\* labels that map to it) and the (project, domain) -> label table.
quboleCfg ==
    [ClusterConfigs |->
        << [PrimaryLabel |-> "prod-1", Labels |-> <<"teamA", "prod-1">>],
           [PrimaryLabel |-> "prod-2", Labels |-> <<"teamB">>] >>,
     DestinationClusterConfigs |->
        << [Project |-> "p", Domain |-> "d", ClusterLabel |-> "teamB"] >>]

\* What tCtx gives for each task: the generated name, the execution's
\* project and domain, and the cluster label of its QuboleHiveJob.
TaskMeta ==
    [t \in Tasks |->
        IF t = "t1"
        THEN [GeneratedName |-> "t1", Project |-> "p", Domain |-> "d",
              ClusterLabel |-> "teamA"]
        ELSE IF t = "t2"
        THEN [GeneratedName |-> "t2", Project |-> "p", Domain |-> "d",
              ClusterLabel |-> ""]
        ELSE [GeneratedName |-> "t3", Project |-> "p", Domain |-> "d",
              ClusterLabel |-> "prod-1"]]

\* Mutant: every task gets the same generated name.
GetGeneratedName_Shared(t) == TaskMeta["t1"].GeneratedName

GetGeneratedName(t) == TaskMeta[t].GeneratedName

\* GetQueryInfo: only the cluster label and the error are modelled. The
\* outcome of reading the template is an input of each call:
\*   "ok"            the template is read, decoded and has a query
\*   "readErr"       TaskReader().Read fails
\*   "unmarshalErr"  utils.UnmarshalStruct fails
\*   "noQuery"       validateQuboleHiveJob finds hiveJob.Query == nil
QueryInfoOutcomes == {"ok", "readErr", "unmarshalErr", "noQuery"}

validateQuboleHiveJob(outcome) ==
    IF outcome = "noQuery" THEN BadTaskSpecification ELSE NoError

GetQueryInfo(t, outcome) ==
    IF outcome = "readErr" THEN [cluster |-> "", err |-> Untagged]
    ELSE IF outcome = "unmarshalErr" THEN [cluster |-> "", err |-> Untagged]
    ELSE IF validateQuboleHiveJob(outcome) # NoError
         THEN [cluster |-> "", err |-> validateQuboleHiveJob(outcome)]
    ELSE [cluster |-> TaskMeta[t].ClusterLabel, err |-> NoError]

SeqHas(seq, x) == \E i \in 1..Len(seq) : seq[i] = x

\* The outer loop runs over every cluster config (the break leaves only the
\* inner loop), so the last config that lists the label decides.
RECURSIVE mapLabelLoop(_, _, _, _)
mapLabelLoop(configs, i, label, acc) ==
    IF i > Len(configs) THEN acc
    ELSE mapLabelLoop(configs, i + 1, label,
            IF label # "" /\ SeqHas(configs[i].Labels, label)
            THEN [primaryLabel |-> configs[i].PrimaryLabel, found |-> TRUE]
            ELSE acc)

mapLabelToPrimaryLabel(cfg, label) ==
    IF label = ""
    THEN [primaryLabel |-> DefaultClusterPrimaryLabel, found |-> FALSE]
    ELSE mapLabelLoop(cfg.ClusterConfigs, 1, label,
            [primaryLabel |-> DefaultClusterPrimaryLabel, found |-> FALSE])

RECURSIVE mapProjectDomainLoop(_, _, _, _)
mapProjectDomainLoop(configs, i, project, domain) ==
    IF i > Len(configs) THEN [clusterLabel |-> "", found |-> FALSE]
    ELSE IF project = configs[i].Project /\ domain = configs[i].Domain
         THEN [clusterLabel |-> configs[i].ClusterLabel, found |-> TRUE]
    ELSE mapProjectDomainLoop(configs, i + 1, project, domain)

\* tCtx stands for what the task execution context gives: the task's record
\* of TaskMeta.
mapProjectDomainToDestinationClusterLabel(tCtx, cfg) ==
    mapProjectDomainLoop(cfg.DestinationClusterConfigs, 1,
                         tCtx.Project, tCtx.Domain)

\* Mutant: a non-empty override decides even when no config lists it.
getClusterPrimaryLabel_OverrideAlways(cfg, tCtx, clusterLabelOverride) ==
    LET byOverride == mapLabelToPrimaryLabel(cfg, clusterLabelOverride)
        byProject == mapProjectDomainToDestinationClusterLabel(tCtx, cfg)
    IN  IF clusterLabelOverride # ""
        THEN byOverride.primaryLabel
        ELSE IF byProject.found
             THEN mapLabelToPrimaryLabel(cfg, byProject.clusterLabel).primaryLabel
        ELSE DefaultClusterPrimaryLabel

\* cfg is what config.GetQuboleConfig() returns at the call.
getClusterPrimaryLabel(cfg, tCtx, clusterLabelOverride) ==
    LET byOverride == mapLabelToPrimaryLabel(cfg, clusterLabelOverride)
        byProject == mapProjectDomainToDestinationClusterLabel(tCtx, cfg)
    IN  IF clusterLabelOverride # "" /\ byOverride.found
        THEN byOverride.primaryLabel
        ELSE IF byProject.found
             THEN mapLabelToPrimaryLabel(cfg, byProject.clusterLabel).primaryLabel
        ELSE DefaultClusterPrimaryLabel

\* Mutant: the job's cluster label itself is used as the namespace.
composeResourceNamespaceWithClusterPrimaryLabel_LabelItself(t, outcome) ==
    LET qi == GetQueryInfo(t, outcome)
    IN  IF qi.err # NoError THEN [ns |-> "", err |-> qi.err]
        ELSE [ns |-> qi.cluster, err |-> NoError]

composeResourceNamespaceWithClusterPrimaryLabel(t, outcome) ==
    LET qi == GetQueryInfo(t, outcome)
    IN  IF qi.err # NoError THEN [ns |-> "", err |-> qi.err]
        ELSE [ns |-> getClusterPrimaryLabel(quboleCfg, TaskMeta[t], qi.cluster), err |-> NoError]

----------------------------------------------------------------------------
\* The collaborators.

\* The allocator: a request for a token that is already held, or that fits
\* the namespace's quota, may be granted; any request may be turned down
\* (the pool is shared with other users), answered with a status the plugin
\* does not know, or fail.
AllocationStatusGranted == "Granted"
AllocationStatusExhausted == "Exhausted"
AllocationStatusNamespaceQuotaExceeded == "NamespaceQuotaExceeded"
AllocationStatusUndefined == "AllocationUndefined"
AllocateAnswers ==
    {AllocationStatusGranted, AllocationStatusExhausted,
     AllocationStatusNamespaceQuotaExceeded, AllocationStatusUndefined, "error"}

HeldIn(h, ns) == {p \in h : p[1] = ns}

CanGrant(h, ns, token) ==
    <<ns, token>> \in h \/ Cardinality(HeldIn(h, ns)) < NamespaceQuota

AllocateResource(h, ns, token, answer) ==
    IF answer = "error" THEN [status |-> "", err |-> Untagged, held |-> h]
    ELSE IF answer = AllocationStatusGranted
         THEN [status |-> answer, err |-> NoError,
               held |-> h \cup {<<ns, token>>}]
    ELSE [status |-> answer, err |-> NoError, held |-> h]

ReleaseResource(h, ns, token, answer) ==
    IF answer = "error" THEN [err |-> Untagged, held |-> h]
    ELSE [err |-> NoError, held |-> h \ {<<ns, token>>}]

\* The backend: every accepted ExecuteHiveCommand creates a new command with
\* a fresh id; the call carries the query, the label and the tags, and no
\* name derived from the task.
NextCommandId(cmds) == FirstCommandId + Cardinality(cmds)

CommandURI(id) == <<"u">> \o FormatInt(id)

ExecuteHiveCommand(cmds, t, label, answer) ==
    IF answer = "error"
    THEN [ID |-> 0, URI |-> <<>>, err |-> Untagged, commands |-> cmds]
    ELSE LET id == NextCommandId(cmds)
         IN  [ID |-> id, URI |-> CommandURI(id), err |-> NoError,
              commands |-> cmds \cup {[ID |-> id, Owner |-> t, Label |-> label]}]

KillCommand(k, commandId, answer) ==
    IF answer = "error" THEN [err |-> Untagged, killed |-> k]
    ELSE [err |-> NoError, killed |-> k \cup {commandId}]

\* The auto-refresh cache: GetOrCreate returns the entry under the id when
\* there is one, and otherwise stores the item and returns it. "badtype" is
\* an answer that is no ExecutionStateCacheItem.
ExecutionStateCacheItem(s, id) == [ExecutionState |-> s, Id |-> id]

GetOrCreate(c, id, item, answer) ==
    IF answer = "error"
    THEN [item |-> item, isItem |-> FALSE, err |-> Untagged, cache |-> c]
    ELSE LET c2 == IF id \in DOMAIN c THEN c
                   ELSE [k \in DOMAIN c \cup {id} |->
                            IF k = id THEN item ELSE c[k]]
         IN  [item |-> c2[id], isItem |-> answer # "badtype",
              err |-> NoError, cache |-> c2]

----------------------------------------------------------------------------
\* The state machine. Each transformer takes the task, the current state,
\* the collaborators' state env = [held, cache, commands, killed] and the
\* answers in the collaborators give during the call, and returns the state
\* and error the Go function returns, the calls it made and the
\* collaborators' state after them.

Result(s, err, calls, env) ==
    [state |-> s, err |-> err, calls |-> calls, env |-> env]

\* Mutant: the start time is taken from the clock at every request.
NewStateWithStartTime_AlwaysNow(currentState, now) ==
    [ZeroState EXCEPT !.AllocationTokenRequestStartTime = now]

\* newState := ExecutionState{} with the time of the first request for a
\* token: the current one when it is set, time.Now() otherwise.
NewStateWithStartTime(currentState, now) ==
    [ZeroState EXCEPT !.AllocationTokenRequestStartTime =
        IF currentState.AllocationTokenRequestStartTime = 0
        THEN now
        ELSE currentState.AllocationTokenRequestStartTime]

\* Mutant: a status the plugin does not know is taken as a denial.
PhaseForAllocationStatus_UnknownStatusWaits(allocationStatus) ==
    IF allocationStatus = AllocationStatusGranted THEN PhaseQueued
    ELSE PhaseNotStarted

\* Mutant: a granted request leaves the task in NotStarted.
PhaseForAllocationStatus_GrantNotQueued(allocationStatus) ==
    IF allocationStatus = AllocationStatusGranted THEN PhaseNotStarted
    ELSE IF allocationStatus = AllocationStatusExhausted THEN PhaseNotStarted
    ELSE IF allocationStatus = AllocationStatusNamespaceQuotaExceeded
         THEN PhaseNotStarted
    ELSE -1

\* Mutant: a request turned down for the namespace's quota is queued.
PhaseForAllocationStatus_QuotaExceededQueues(allocationStatus) ==
    IF allocationStatus = AllocationStatusGranted THEN PhaseQueued
    ELSE IF allocationStatus = AllocationStatusExhausted THEN PhaseNotStarted
    ELSE IF allocationStatus = AllocationStatusNamespaceQuotaExceeded
         THEN PhaseQueued
    ELSE -1

\* Mutant: the namespace-quota branch is missing, so that status falls to
\* the bad allocation result.
PhaseForAllocationStatus_NoQuotaBranch(allocationStatus) ==
    IF allocationStatus = AllocationStatusGranted THEN PhaseQueued
    ELSE IF allocationStatus = AllocationStatusExhausted THEN PhaseNotStarted
    ELSE -1

\* The phase an allocation status leads to; -1 is the bad allocation result.
PhaseForAllocationStatus(allocationStatus) ==
    IF allocationStatus = AllocationStatusGranted THEN PhaseQueued
    ELSE IF allocationStatus = AllocationStatusExhausted THEN PhaseNotStarted
    ELSE IF allocationStatus = AllocationStatusNamespaceQuotaExceeded
         THEN PhaseNotStarted
    ELSE -1

GetAllocationToken(t, currentState, env, in) ==
    LET uniqueId == GetGeneratedName(t)
        composed == composeResourceNamespaceWithClusterPrimaryLabel(t, in.qi)
        alloc == AllocateResource(env.held, composed.ns, uniqueId, in.alloc)
        allocCall == Call("AllocateResource", composed.ns, uniqueId, <<>>,
                          ZeroState,
                          IF alloc.err # NoError THEN "error" ELSE alloc.status)
        env2 == [env EXCEPT !.held = alloc.held]
        newState == NewStateWithStartTime(currentState, in.now)
        phase == PhaseForAllocationStatus(alloc.status)
    IN  IF composed.err # NoError
        THEN Result(ZeroState, ResourceManagerFailure, {}, env)
        ELSE IF alloc.err # NoError
             THEN Result(ZeroState, ResourceManagerFailure, {allocCall}, env2)
        ELSE IF phase # -1
             THEN Result([newState EXCEPT !.Phase = phase], NoError,
                         {allocCall}, env2)
        ELSE Result(newState, ResourceManagerFailure, {allocCall}, env2)

\* Mutant: failed creates are no longer counted once the count is above 5.
CreationFailed_StopsAboveCeiling(currentState) ==
    IF currentState.CreationFailureCount > 5 THEN currentState
    ELSE [currentState EXCEPT
             !.CreationFailureCount = currentState.CreationFailureCount + 1]

\* Mutant: a failed create is not counted.
CreationFailed_NotCounted(currentState) == currentState

\* Mutant: a failed create puts the task back to NotStarted.
CreationFailed_BackToNotStarted(currentState) ==
    [currentState EXCEPT
        !.CreationFailureCount = currentState.CreationFailureCount + 1,
        !.Phase = PhaseNotStarted]

\* The create failed: one more creation failure, the phase is kept.
CreationFailed(currentState) ==
    [currentState EXCEPT
        !.CreationFailureCount = currentState.CreationFailureCount + 1]

\* Mutant: the command id is stored and the phase is not advanced.
QuerySubmitted_PhaseKept(currentState, cmdDetails) ==
    [currentState EXCEPT !.CommandId = FormatInt(cmdDetails.ID),
                         !.URI = cmdDetails.URI]

\* The create succeeded: the command id and URI of the command, Submitted.
QuerySubmitted(currentState, cmdDetails) ==
    [currentState EXCEPT !.CommandId = FormatInt(cmdDetails.ID),
                         !.Phase = PhaseSubmitted,
                         !.URI = cmdDetails.URI]

\* Mutant: a failed registration is not reported.
Registered_ErrorIgnored(submitted, got, calls, env) ==
    Result(submitted, NoError, calls, env)

\* The end of the success branch: the error of GetOrCreate, if any, is
\* returned as it is with the Submitted state; the item is not looked at.
Registered(submitted, got, calls, env) ==
    IF got.err # NoError
    THEN Result(submitted, got.err, calls, env)
    ELSE Result(submitted, NoError, calls, env)

KickOffQuery(t, currentState, env, in) ==
    LET uniqueId == GetGeneratedName(t)
        qi == GetQueryInfo(t, in.qi)
        clusterPrimaryLabel == getClusterPrimaryLabel(quboleCfg, TaskMeta[t], qi.cluster)
        cmdDetails ==
            ExecuteHiveCommand(env.commands, t, clusterPrimaryLabel, in.exec)
        execCall == Call("ExecuteHiveCommand", clusterPrimaryLabel, "",
                         IF cmdDetails.err # NoError THEN <<>>
                         ELSE FormatInt(cmdDetails.ID),
                         ZeroState,
                         IF cmdDetails.err # NoError THEN "error" ELSE "ok")
        env2 == [env EXCEPT !.commands = cmdDetails.commands]
        failed == CreationFailed(currentState)
        submitted == QuerySubmitted(currentState, cmdDetails)
        item == ExecutionStateCacheItem(submitted, uniqueId)
        got == GetOrCreate(env.cache, uniqueId, item, in.cacheAns)
        cacheCall == Call("GetOrCreate", "", uniqueId, <<>>, submitted,
                          IF got.err # NoError THEN "error" ELSE "ok")
        env3 == [env2 EXCEPT !.cache = got.cache]
    IN  IF in.secret = "error"
        THEN Result(currentState, RuntimeFailure, {}, env)
        ELSE IF qi.err # NoError
             THEN Result(currentState, qi.err, {}, env)
        ELSE IF cmdDetails.err # NoError
             THEN Result(failed, NoError, {execCall}, env2)
        ELSE Registered(submitted, got, {execCall, cacheCall}, env3)

\* Mutant: the state passed in is returned, not the cached one.
MonitorQuery_ReturnsSeed(t, currentState, env, in) ==
    LET uniqueId == GetGeneratedName(t)
        item == ExecutionStateCacheItem(currentState, uniqueId)
        got == GetOrCreate(env.cache, uniqueId, item, in.cacheAns)
        cacheCall == Call("GetOrCreate", "", uniqueId, <<>>, currentState,
                          IF got.err # NoError THEN "error" ELSE "ok")
        env2 == [env EXCEPT !.cache = got.cache]
    IN  IF got.err # NoError \/ ~got.isItem
        THEN Result(currentState, CacheFailed, {cacheCall}, env2)
        ELSE Result(currentState, NoError, {cacheCall}, env2)

MonitorQuery(t, currentState, env, in) ==
    LET uniqueId == GetGeneratedName(t)
        item == ExecutionStateCacheItem(currentState, uniqueId)
        got == GetOrCreate(env.cache, uniqueId, item, in.cacheAns)
        cacheCall == Call("GetOrCreate", "", uniqueId, <<>>, currentState,
                          IF got.err # NoError THEN "error" ELSE "ok")
        env2 == [env EXCEPT !.cache = got.cache]
    IN  IF got.err # NoError
        THEN Result(currentState, CacheFailed, {cacheCall}, env2)
        ELSE IF ~got.isItem
             THEN Result(currentState, CacheFailed, {cacheCall}, env2)
        ELSE Result(got.item.ExecutionState, NoError, {cacheCall}, env2)

\* Mutant: a terminal phase has no case, so newState stays the zero value.
TerminalTransition_NoCase(currentState, env) ==
    Result(ZeroState, NoError, {}, env)

\* The two terminal cases of the switch: newState = currentState, no error.
TerminalTransition(currentState, env) ==
    Result(currentState, NoError, {}, env)

\* Mutant: the NotStarted case starts the query without asking for a token.
HandleExecutionState_NoAdmission(t, currentState, env, in) ==
    CASE currentState.Phase = PhaseNotStarted ->
            KickOffQuery(t, currentState, env, in)
      [] currentState.Phase = PhaseQueued ->
            KickOffQuery(t, currentState, env, in)
      [] currentState.Phase = PhaseSubmitted ->
            MonitorQuery(t, currentState, env, in)
      [] OTHER -> TerminalTransition(currentState, env)

HandleExecutionState(t, currentState, env, in) ==
    CASE currentState.Phase = PhaseNotStarted ->
            GetAllocationToken(t, currentState, env, in)
      [] currentState.Phase = PhaseQueued ->
            KickOffQuery(t, currentState, env, in)
      [] currentState.Phase = PhaseSubmitted ->
            MonitorQuery(t, currentState, env, in)
      [] currentState.Phase = PhaseQuerySucceeded ->
            TerminalTransition(currentState, env)
      [] currentState.Phase = PhaseQueryFailed ->
            TerminalTransition(currentState, env)
      [] OTHER -> Result(ZeroState, NoError, {}, env)

----------------------------------------------------------------------------
\* The projector.

ConstructTaskLog(e) ==
    [Name |-> <<e.Phase, e.CommandId>>, Uri |-> e.URI]

\* The TaskInfo (its logs), or the nil pointer.
NilTaskInfo == [isNil |-> TRUE, Logs |-> <<>>]

\* Mutant: the TaskInfo is built whether or not there is a command id.
ConstructTaskInfo_Always(e) ==
    [isNil |-> FALSE, Logs |-> <<ConstructTaskLog(e)>>]

ConstructTaskInfo(e) ==
    IF e.CommandId # <<>>
    THEN [isNil |-> FALSE, Logs |-> <<ConstructTaskLog(e)>>]
    ELSE NilTaskInfo

CreationFailureCeiling == 5

PhaseInfo(kind, version, code, info) ==
    [kind |-> kind, version |-> version, code |-> code, info |-> info]

\* Mutant: the ceiling itself already counts as too many.
TooManyCreationAttempts_AtCeiling(s) ==
    s.CreationFailureCount >= CreationFailureCeiling

TooManyCreationAttempts(s) == s.CreationFailureCount > CreationFailureCeiling

MapExecutionStateToPhaseInfo(s) ==
    CASE s.Phase = PhaseNotStarted ->
            PhaseInfo("NotReady", 0, "", NilTaskInfo)
      [] s.Phase = PhaseQueued ->
            IF TooManyCreationAttempts(s)
            THEN PhaseInfo("SystemRetryableFailure", 0, "QuboleFailure",
                           NilTaskInfo)
            ELSE PhaseInfo("Queued", s.CreationFailureCount, "", NilTaskInfo)
      [] s.Phase = PhaseSubmitted ->
            PhaseInfo("Running", 0, "", ConstructTaskInfo(s))
      [] s.Phase = PhaseQuerySucceeded ->
            PhaseInfo("Success", 0, "", ConstructTaskInfo(s))
      [] s.Phase = PhaseQueryFailed ->
            PhaseInfo("Failure", 0, DownstreamSystemError,
                      ConstructTaskInfo(s))
      [] OTHER -> PhaseInfo("Undefined", 0, "", NilTaskInfo)

----------------------------------------------------------------------------
\* The lifecycle hooks.

\* Mutant: Abort also gives the task's token back.
Abort_ReleasesToken(t, currentState, env, in) ==
    LET kill == KillCommand(env.killed, currentState.CommandId, in.kill)
        composed == composeResourceNamespaceWithClusterPrimaryLabel(t, in.qi)
        rel == ReleaseResource(env.held, composed.ns, GetGeneratedName(t), "ok")
    IN  Result(currentState, kill.err, {},
               [env EXCEPT !.killed = kill.killed, !.held = rel.held])

Abort(t, currentState, env, in) ==
    LET kill == KillCommand(env.killed, currentState.CommandId, in.kill)
        killCall == Call("KillCommand", "", "", currentState.CommandId,
                         ZeroState,
                         IF kill.err # NoError THEN "error" ELSE "ok")
        env2 == [env EXCEPT !.killed = kill.killed]
    IN  IF ~InTerminalState(currentState) /\ currentState.CommandId # <<>>
        THEN Result(currentState, kill.err, {killCall}, env2)
        ELSE Result(currentState, NoError, {}, env)

\* Mutant: Finalize gives back every token of the task's namespace.
Finalize_ReleasesNamespace(t, currentState, env, in) ==
    LET composed == composeResourceNamespaceWithClusterPrimaryLabel(t, in.qi)
    IN  IF composed.err # NoError
        THEN Result(currentState, ResourceManagerFailure, {}, env)
        ELSE Result(currentState, NoError,
                    {Call("ReleaseResource", composed.ns, GetGeneratedName(t),
                          <<>>, ZeroState, "ok")},
                    [env EXCEPT !.held = env.held \ HeldIn(env.held, composed.ns)])

Finalize(t, currentState, env, in) ==
    LET uniqueId == GetGeneratedName(t)
        composed == composeResourceNamespaceWithClusterPrimaryLabel(t, in.qi)
        rel == ReleaseResource(env.held, composed.ns, uniqueId, in.release)
        relCall == Call("ReleaseResource", composed.ns, uniqueId, <<>>,
                        ZeroState,
                        IF rel.err # NoError THEN "error" ELSE "ok")
        env2 == [env EXCEPT !.held = rel.held]
    IN  IF composed.err # NoError
        THEN Result(currentState, ResourceManagerFailure, {}, env)
        ELSE Result(currentState, rel.err, {relCall}, env2)

----------------------------------------------------------------------------
\* The orchestrator and the environment.

Env == [held |-> held, cache |-> cache, commands |-> commands,
        killed |-> killed]

\* The answers of one call; each action varies only those its call reads.
DefaultIn ==
    [now |-> 1, qi |-> "ok", alloc |-> AllocationStatusGranted,
     secret |-> "ok", exec |-> "ok", cacheAns |-> "ok", kill |-> "ok",
     release |-> "ok"]

TickInputs(t, s) ==
    CASE s.Phase = PhaseNotStarted ->
            {[DefaultIn EXCEPT !.now = n, !.qi = q, !.alloc = a] :
                n \in (IF s.AllocationTokenRequestStartTime = 0
                       THEN Times ELSE {1}),
                q \in QueryInfoOutcomes,
                a \in {x \in AllocateAnswers :
                        x = AllocationStatusGranted =>
                            CanGrant(held,
                                     getClusterPrimaryLabel(quboleCfg, TaskMeta[t],
                                         TaskMeta[t].ClusterLabel),
                                     GetGeneratedName(t))}}
      [] s.Phase = PhaseQueued ->
            {[DefaultIn EXCEPT !.secret = x, !.qi = q, !.exec = e,
                               !.cacheAns = c] :
                x \in {"ok", "error"},
                q \in QueryInfoOutcomes,
                e \in {y \in {"ok", "error"} :
                        /\ y = "error" =>
                              s.CreationFailureCount < MaxCreationFailures
                        /\ y = "ok" => Cardinality(commands) < MaxCommands},
                c \in {"ok", "error"}}
      [] s.Phase = PhaseSubmitted ->
            {[DefaultIn EXCEPT !.cacheAns = c] :
                c \in {"ok", "error", "badtype"}}
      [] OTHER -> {DefaultIn}

\* The orchestrator stores the state a tick returns when the tick returned
\* no error and the write of the task's record succeeded; otherwise the
\* record it has is kept.
Persist(old, r, written) ==
    IF r.err = NoError /\ written THEN r.state ELSE old

\* What the orchestrator saw of a call: the state it passed, the state and
\* error returned, the collaborator calls made and, after a tick without
\* error, the phase the projector reports for the returned state.
NoPhaseInfo == PhaseInfo("none", 0, "", NilTaskInfo)

\* afterFailedAbort tells of a Finalize that the call before it was an
\* Abort of the same task that returned an error.
Record(op, t, s, r) ==
    [op |-> op, task |-> t, in |-> s, out |-> r.state, err |-> r.err,
     calls |-> r.calls,
     info |-> IF op = "tick" /\ r.err = NoError
              THEN MapExecutionStateToPhaseInfo(r.state)
              ELSE NoPhaseInfo,
     afterFailedAbort |-> /\ op = "finalize"
                          /\ last.op = "abort"
                          /\ last.task = t
                          /\ last.err # NoError]

NoCall ==
    [op |-> "none", task |-> "", in |-> ZeroState, out |-> ZeroState,
     err |-> NoError, calls |-> {}, info |-> NoPhaseInfo,
     afterFailedAbort |-> FALSE]

Apply(r) ==
    /\ held' = r.env.held
    /\ cache' = r.env.cache
    /\ commands' = r.env.commands
    /\ killed' = r.env.killed

\* One reconciliation tick of task t, with the collaborators' answers drawn
\* from ins and the outcome of the record's write from writes.
TickWith(t, ins, writes) ==
    /\ lifecycle[t] = "running"
    /\ \E in \in ins, written \in writes :
          LET r == HandleExecutionState(t, state[t], Env, in)
          IN  /\ (r.err # NoError => written)
              /\ Apply(r)
              /\ state' = [state EXCEPT ![t] = Persist(state[t], r, written)]
              /\ last' = Record("tick", t, state[t], r)
    /\ UNCHANGED lifecycle

\* One reconciliation tick of task t.
TickTask(t) == TickWith(t, TickInputs(t, state[t]), BOOLEAN)

\* The orchestrator cancels task t.
AbortWith(t, kills) ==
    /\ lifecycle[t] = "running"
    /\ \E k \in kills :
          LET r == Abort(t, state[t], Env, [DefaultIn EXCEPT !.kill = k])
          IN  /\ Apply(r)
              /\ last' = Record("abort", t, state[t], r)
    /\ lifecycle' = [lifecycle EXCEPT ![t] = "aborted"]
    /\ UNCHANGED state

AbortTask(t) == AbortWith(t, {"ok", "error"})

\* The orchestrator finalizes task t: after it completed, after an Abort,
\* or once more when a Finalize is replayed.
FinalizeWith(t, qis, rels) ==
    /\ lifecycle[t] \in {"running", "aborted", "finalized"}
    /\ \E q \in qis, rel \in rels :
          LET r == Finalize(t, state[t], Env,
                            [DefaultIn EXCEPT !.qi = q, !.release = rel])
          IN  /\ Apply(r)
              /\ last' = Record(IF lifecycle[t] = "finalized"
                                THEN "refinalize" ELSE "finalize",
                                t, state[t], r)
    /\ lifecycle' = [lifecycle EXCEPT ![t] = "finalized"]
    /\ UNCHANGED state

FinalizeTask(t) == FinalizeWith(t, QueryInfoOutcomes, {"ok", "error"})

\* The cache's background refresh of one entry: it asks the backend for the
\* command's status and folds it into the entry. An entry that is not
\* Submitted is left alone.
SyncOutcomes == {"done", "error", "syncFailed"}

SyncQuboleQuery(s, outcome) ==
    IF s.Phase # PhaseSubmitted THEN s
    ELSE IF outcome = "done" THEN [s EXCEPT !.Phase = PhaseQuerySucceeded]
    ELSE IF outcome = "error" THEN [s EXCEPT !.Phase = PhaseQueryFailed]
    ELSE [s EXCEPT !.SyncFailureCount = s.SyncFailureCount + 1]

RefreshWith(id, outcomes) ==
    /\ id \in DOMAIN cache
    /\ cache[id].ExecutionState.Phase = PhaseSubmitted
    /\ \E o \in outcomes :
          /\ o = "syncFailed" =>
                cache[id].ExecutionState.SyncFailureCount < MaxSyncFailures
          /\ cache' = [cache EXCEPT ![id].ExecutionState =
                          SyncQuboleQuery(cache[id].ExecutionState, o)]
    /\ last' = NoCall
    /\ UNCHANGED <<state, lifecycle, held, commands, killed>>

RefreshCache(id) == RefreshWith(id, SyncOutcomes)

\* The process restarts: the in-memory cache is lost, the persisted records,
\* the allocator and the backend are not.
RestartProcess ==
    /\ DOMAIN cache # {}
    /\ cache' = <<>>
    /\ last' = NoCall
    /\ UNCHANGED <<state, lifecycle, held, commands, killed>>

InitWith(scheduled) ==
    /\ state = [t \in Tasks |-> ZeroState]
    /\ lifecycle = [t \in Tasks |->
                       IF t \in scheduled THEN "running" ELSE "unscheduled"]
    /\ held = {}
    /\ cache = <<>>
    /\ commands = {}
    /\ killed = {}
    /\ last = NoCall

Init == InitWith({"t1"})

Next ==
    \/ \E t \in Tasks : TickTask(t)
    \/ \E t \in Tasks : AbortTask(t)
    \/ \E t \in Tasks : FinalizeTask(t)
    \/ \E id \in Tasks : RefreshCache(id)
    \/ RestartProcess

Spec == Init /\ [][Next]_vars

\* The run of a task whose collaborators work, apart from admission being
\* denied and creates failing: every template read, secret read, cache call
\* and write of the task's record succeeds, the process is not restarted
\* and the task is neither aborted nor finalized.
ScenarioInputs(t, s) ==
    {in \in TickInputs(t, s) :
        /\ in.qi = "ok"
        /\ in.secret = "ok"
        /\ in.cacheAns = "ok"
        /\ in.alloc \in {AllocationStatusGranted, AllocationStatusExhausted,
                         AllocationStatusNamespaceQuotaExceeded}}

ScenarioTick(t) == TickWith(t, ScenarioInputs(t, state[t]), {TRUE})

NextScenario ==
    \/ \E t \in Tasks : ScenarioTick(t)
    \/ \E id \in Tasks : RefreshCache(id)

SpecScenario == Init /\ [][NextScenario]_vars

\* A task the orchestrator keeps ticking and never aborts or finalizes. Any
\* call of a tick may fail; a create whose registration fails is explored
\* only while the backend can still create one more command after it, so
\* that the bound MaxCommands never stops a create.
LiveInputs(t, s) ==
    {in \in TickInputs(t, s) :
        /\ in.now = 1
        /\ (s.Phase = PhaseQueued /\ in.exec = "ok" /\ in.cacheAns # "ok")
              => Cardinality(commands) + 1 < MaxCommands}

\* The answers of a tick whose collaborators all work and whose request is
\* granted.
GoodInputs(t, s) ==
    {in \in LiveInputs(t, s) :
        /\ in.qi = "ok"
        /\ in.secret = "ok"
        /\ in.exec = "ok"
        /\ in.cacheAns = "ok"
        /\ in.alloc = AllocationStatusGranted}

LiveTick(t) == TickWith(t, LiveInputs(t, state[t]), {TRUE})

GoodTick(t) == TickWith(t, GoodInputs(t, state[t]), {TRUE})

\* A refresh in which the backend reports the command finished.
TerminalRefresh(id) == RefreshWith(id, {"done", "error"})

NextLive ==
    \/ \E t \in Tasks : LiveTick(t)
    \/ \E id \in Tasks : RefreshCache(id)

\* The orchestrator keeps ticking and the collaborators eventually work: a
\* tick in which every call succeeds, and a refresh that finds the command
\* finished, are not put off for ever.
Fairness ==
    \A t \in Tasks : WF_vars(GoodTick(t)) /\ WF_vars(TerminalRefresh(t))

SpecLive == Init /\ [][NextLive]_vars /\ Fairness

\* Several tasks at once, two of them (t1, t3) in the same namespace. The
\* allocator grants, turns down or fails; a Finalize may fail to read the
\* template or to release; the other calls succeed.
MultiInputs(t, s) ==
    IF s.Phase = PhaseNotStarted
    THEN {in \in TickInputs(t, s) :
             /\ in.now = 1
             /\ in.qi = "ok"
             /\ in.alloc \in {AllocationStatusGranted,
                              AllocationStatusNamespaceQuotaExceeded, "error"}}
    ELSE {DefaultIn}

MultiTick(t) == TickWith(t, MultiInputs(t, state[t]), {TRUE})

NextMulti ==
    \/ \E t \in Tasks : MultiTick(t)
    \/ \E t \in Tasks : AbortWith(t, {"ok"})
    \/ \E t \in Tasks : FinalizeWith(t, {"ok", "readErr"}, {"ok", "error"})
    \/ \E id \in Tasks : RefreshWith(id, {"done"})

InitMulti == InitWith(Tasks)

SpecMulti == InitMulti /\ [][NextMulti]_vars

\* Namespace resolution on its own: a configuration, a task execution
\* context and an override label are drawn, then getClusterPrimaryLabel is
\* applied to them.
ClusterConfigChoices ==
    {quboleCfg.ClusterConfigs,
     <<>>,
     <<[PrimaryLabel |-> "prod-1", Labels |-> <<"teamA">>],
       [PrimaryLabel |-> "prod-2", Labels |-> <<"teamA", "teamB">>]>>}

DestinationClusterConfigChoices ==
    {quboleCfg.DestinationClusterConfigs,
     <<>>,
     <<[Project |-> "p", Domain |-> "d", ClusterLabel |-> "teamA"],
       [Project |-> "p", Domain |-> "d", ClusterLabel |-> "teamB"]>>,
     <<[Project |-> "p", Domain |-> "e", ClusterLabel |-> "teamA"],
       [Project |-> "q", Domain |-> "d", ClusterLabel |-> "teamC"]>>,
     <<[Project |-> "p", Domain |-> "d", ClusterLabel |-> ""]>>}

ConfigChoices ==
    {[ClusterConfigs |-> cc, DestinationClusterConfigs |-> dc] :
        cc \in ClusterConfigChoices, dc \in DestinationClusterConfigChoices}

ContextChoices ==
    {[GeneratedName |-> "t", Project |-> p, Domain |-> d, ClusterLabel |-> l] :
        p \in {"p", "q"}, d \in {"d", "e"}, l \in {""}}

OverrideChoices == {"", "teamA", "teamB", "teamC"}

Resolution(op, in, out) ==
    [op |-> op, task |-> "", in |-> in, out |-> out, err |-> NoError,
     calls |-> {}, info |-> NoPhaseInfo, afterFailedAbort |-> FALSE]

InitNamespace ==
    /\ state = [t \in Tasks |-> ZeroState]
    /\ lifecycle = [t \in Tasks |-> "unscheduled"]
    /\ held = {}
    /\ cache = <<>>
    /\ commands = {}
    /\ killed = {}
    /\ \E cfg \in ConfigChoices, tCtx \in ContextChoices,
          override \in OverrideChoices :
          last = Resolution("input",
                            [cfg |-> cfg, tCtx |-> tCtx, override |-> override],
                            "")

Resolve ==
    /\ last.op = "input"
    /\ last' = Resolution("resolve", last.in,
                          getClusterPrimaryLabel(last.in.cfg, last.in.tCtx,
                                                 last.in.override))
    /\ UNCHANGED <<state, lifecycle, held, cache, commands, killed>>

NextNamespace == Resolve

SpecNamespace == InitNamespace /\ [][NextNamespace]_vars

\* The projector on its own: an execution state is drawn, also one no run
\* of the state machine produces, then MapExecutionStateToPhaseInfo is
\* applied to it.
StateChoices ==
    {[Phase |-> ph, CommandId |-> id, URI |-> uri, SyncFailureCount |-> 0,
      CreationFailureCount |-> n, AllocationTokenRequestStartTime |-> st] :
        ph \in {PhaseNotStarted, PhaseQueued, PhaseSubmitted,
                PhaseQuerySucceeded, PhaseQueryFailed},
        id \in {<<>>, FormatInt(FirstCommandId)},
        uri \in {<<>>, CommandURI(FirstCommandId)},
        n \in 0..MaxCreationFailures,
        st \in {0, 1}}

Projection(op, s, info) ==
    [op |-> op, task |-> "", in |-> s, out |-> s, err |-> NoError,
     calls |-> {}, info |-> info, afterFailedAbort |-> FALSE]

InitProjector ==
    /\ state = [t \in Tasks |-> ZeroState]
    /\ lifecycle = [t \in Tasks |-> "unscheduled"]
    /\ held = {}
    /\ cache = <<>>
    /\ commands = {}
    /\ killed = {}
    /\ \E s \in StateChoices : last = Projection("input", s, NoPhaseInfo)

Project ==
    /\ last.op = "input"
    /\ last' = Projection("project", last.in,
                          MapExecutionStateToPhaseInfo(last.in))
    /\ UNCHANGED <<state, lifecycle, held, cache, commands, killed>>

NextProjector == Project

SpecProjector == InitProjector /\ [][NextProjector]_vars

----------------------------------------------------------------------------
\* The claims.

CallsOf(fns) == {c \in last.calls : c.fn \in fns}

CommandPhases == {PhaseSubmitted, PhaseQuerySucceeded, PhaseQueryFailed}
TerminalPhases == {PhaseQuerySucceeded, PhaseQueryFailed}
DenialStatuses ==
    {AllocationStatusExhausted, AllocationStatusNamespaceQuotaExceeded}

CommandIdMatchesPhase(s) == (s.CommandId # <<>>) <=> (s.Phase \in CommandPhases)

\* C1: in every state a task reaches (the persisted state, and the state a
\* tick returns), the command id is non-empty exactly when the phase is
\* Submitted, QuerySucceeded or QueryFailed.
C1_CommandIdIffSubmittedOrLater ==
    /\ \A t \in Tasks : CommandIdMatchesPhase(state[t])
    /\ last.op = "tick" => CommandIdMatchesPhase(last.out)

C1_Witness ==
    \E t \in Tasks :
        /\ state[t].Phase = PhaseQuerySucceeded
        /\ state[t].CommandId # <<>>
        /\ last.op = "tick" /\ last.task = t /\ last.out = state[t]

\* C2: a tick on a state in QuerySucceeded or QueryFailed returns the same
\* state with no error, makes no allocator, backend or cache call and
\* changes none of them; no step changes a persisted terminal state.
C2_TerminalFixedPoint ==
    [][ /\ \A t \in Tasks :
              state[t].Phase \in TerminalPhases => state'[t] = state[t]
        /\ (last'.op = "tick" /\ last'.in.Phase \in TerminalPhases) =>
              /\ last'.out = last'.in
              /\ last'.err = NoError
              /\ last'.calls = {}
              /\ UNCHANGED <<held, cache, commands, killed>> ]_vars

C2_Witness ==
    /\ last.op = "tick"
    /\ last.in.Phase = PhaseQueryFailed
    /\ last.out.Phase = PhaseQueryFailed

\* C3: a NotStarted tick whose allocation is answered Exhausted or
\* NamespaceQuotaExceeded returns NotStarted with no error and a creation
\* failure count of 0, is projected as not-ready and leaves the persisted
\* phase NotStarted, however many denials came before.
C3_DenialKeepsNotStarted ==
    (/\ last.op = "tick"
     /\ last.in.Phase = PhaseNotStarted
     /\ \E c \in CallsOf({"AllocateResource"}) : c.res \in DenialStatuses)
    => /\ last.err = NoError
       /\ last.out.Phase = PhaseNotStarted
       /\ last.out.CreationFailureCount = last.in.CreationFailureCount
       /\ last.out.CreationFailureCount = 0
       /\ last.info.kind = "NotReady"
       /\ state[last.task].Phase = PhaseNotStarted

\* A denial that follows an earlier allocation attempt (the start time is set).
C3_Witness ==
    /\ last.op = "tick"
    /\ last.in.Phase = PhaseNotStarted
    /\ last.in.AllocationTokenRequestStartTime # 0
    /\ \E c \in CallsOf({"AllocateResource"}) :
          c.res = AllocationStatusNamespaceQuotaExceeded
    /\ last.out.Phase = PhaseNotStarted

\* C4 (as claimed): the creation failure count of a task never decreases;
\* a Queued tick whose create fails adds exactly 1, every other tick leaves
\* it as it was.
C4_CreationFailureCountMonotonic ==
    [][ /\ \A t \in Tasks :
              state'[t].CreationFailureCount >= state[t].CreationFailureCount
        /\ (last'.op = "tick" /\ last'.err = NoError) =>
              last'.out.CreationFailureCount =
                 IF /\ last'.in.Phase = PhaseQueued
                    /\ \E c \in last'.calls :
                          c.fn = "ExecuteHiveCommand" /\ c.res = "error"
                 THEN last'.in.CreationFailureCount + 1
                 ELSE last'.in.CreationFailureCount ]_vars

\* C5 (as claimed): every Finalize issues a release call to the allocator.
C5_FinalizeAlwaysReleases ==
    last.op = "finalize" => CallsOf({"ReleaseResource"}) # {}

\* C6 (as claimed): at most one backend command exists for a task.
C6_AtMostOneCommandPerTask ==
    \A t \in Tasks : Cardinality({c \in commands : c.Owner = t}) <= 1

\* C7 (as claimed): the state a tick returns with an error equals the
\* state it was given, in every field.
C7_ErrorReturnsInputState ==
    (last.op = "tick" /\ last.err # NoError) => last.out = last.in

\* C8: Abort calls KillCommand exactly when the phase is not terminal and
\* the command id is non-empty, and then for that command id; otherwise it
\* makes no call and returns no error.
C8_AbortKillsIffLiveCommand ==
    last.op = "abort" =>
        LET live == /\ last.in.Phase \notin TerminalPhases
                    /\ last.in.CommandId # <<>>
        IN  /\ (CallsOf({"KillCommand"}) # {}) <=> live
            /\ \A c \in CallsOf({"KillCommand"}) : c.cmd = last.in.CommandId
            /\ ~live => (last.calls = {} /\ last.err = NoError)

\* Abort of a failed task that has a command: the terminal guard decides.
C8_Witness ==
    /\ last.op = "abort"
    /\ last.in.Phase = PhaseQueryFailed
    /\ last.in.CommandId # <<>>
    /\ last.calls = {}

\* C9: the phase of a task never decreases: not in the persisted state, and
\* no tick returns a phase below the one it was given; a NotStarted tick
\* that returns NotStarted without error was denied admission; a Submitted
\* tick returns Submitted or a terminal phase.
C9_PhaseMonotonic ==
    [][ /\ \A t \in Tasks : state'[t].Phase >= state[t].Phase
        /\ last'.op = "tick" =>
              /\ last'.out.Phase >= last'.in.Phase
              /\ (/\ last'.in.Phase = PhaseNotStarted
                  /\ last'.out.Phase = PhaseNotStarted
                  /\ last'.err = NoError) =>
                    \E c \in last'.calls :
                        c.fn = "AllocateResource" /\ c.res \in DenialStatuses
              /\ last'.in.Phase = PhaseSubmitted =>
                    last'.out.Phase \in CommandPhases ]_vars

C9_Witness ==
    \E t \in Tasks :
        /\ last.op = "tick" /\ last.task = t
        /\ last.in.Phase = PhaseSubmitted
        /\ last.out.Phase = PhaseQuerySucceeded
        /\ state[t] = last.out

\* C10: for a Queued state the projector reports a system-retryable failure
\* exactly when the creation failure count is above 5, and otherwise queued
\* with the count as its retry count.
ProjectedAsQueuedRule(s, info) ==
    s.Phase = PhaseQueued =>
        /\ (info.kind = "SystemRetryableFailure") <=> (s.CreationFailureCount > 5)
        /\ s.CreationFailureCount <= 5 =>
              (info.kind = "Queued" /\ info.version = s.CreationFailureCount)

C10_QueuedProjection ==
    /\ \A t \in Tasks :
          ProjectedAsQueuedRule(state[t], MapExecutionStateToPhaseInfo(state[t]))
    /\ (last.op = "tick" /\ last.err = NoError) =>
          ProjectedAsQueuedRule(last.out, last.info)

C10_Witness ==
    /\ last.op = "tick" /\ last.err = NoError
    /\ last.out.Phase = PhaseQueued
    /\ last.out.CreationFailureCount = 6
    /\ last.info.kind = "SystemRetryableFailure"

\* C11: in a run whose collaborators work, a grant takes NotStarted to
\* Queued; each failed create keeps Queued and adds 1 to the creation
\* failure count; a successful create gives Submitted with the command id
\* the backend returned and the count unchanged; a Submitted tick that finds
\* the entry refreshed to Succeeded returns Succeeded with the same command
\* id and count; each returned state is the one persisted, and the command
\* id of a task is that of the one command created for it.
C11_Scenario ==
    [][ /\ last'.op = "tick" =>
            LET t == last'.task
                in == last'.in
                out == last'.out
            IN  /\ last'.err = NoError
                /\ state'[t] = out
                /\ (/\ in.Phase = PhaseNotStarted
                    /\ \E c \in last'.calls : c.res = AllocationStatusGranted)
                   => out.Phase = PhaseQueued
                /\ (/\ in.Phase = PhaseQueued
                    /\ \E c \in last'.calls : c.res = "error")
                   => /\ out.Phase = PhaseQueued
                      /\ out.CreationFailureCount = in.CreationFailureCount + 1
                /\ \A c \in last'.calls :
                      (c.fn = "ExecuteHiveCommand" /\ c.res = "ok") =>
                         /\ out.Phase = PhaseSubmitted
                         /\ out.CommandId = c.cmd
                         /\ out.CreationFailureCount = in.CreationFailureCount
                /\ (/\ in.Phase = PhaseSubmitted
                    /\ t \in DOMAIN cache
                    /\ cache[t].ExecutionState.Phase = PhaseQuerySucceeded)
                   => /\ out.Phase = PhaseQuerySucceeded
                      /\ out.CommandId = in.CommandId
                      /\ out.CreationFailureCount = in.CreationFailureCount
        /\ \A t \in Tasks :
              state'[t].Phase \in CommandPhases =>
                 \E c \in commands' :
                    /\ {d \in commands' : d.Owner = t} = {c}
                    /\ state'[t].CommandId = FormatInt(c.ID) ]_vars

\* Three failed creates, then the command, then Succeeded.
C11_Witness ==
    /\ last.op = "tick" /\ last.task = "t1"
    /\ last.in.Phase = PhaseSubmitted
    /\ state["t1"].Phase = PhaseQuerySucceeded
    /\ state["t1"].CreationFailureCount = 3
    /\ state["t1"].CommandId = FormatInt(FirstCommandId)

\* The indices of the cluster configs that list a label.
ListedUnder(cfg, label) ==
    {k \in 1..Len(cfg.ClusterConfigs) :
        \E j \in 1..Len(cfg.ClusterConfigs[k].Labels) :
           cfg.ClusterConfigs[k].Labels[j] = label}

PrimaryLabelsOf(cfg, label) ==
    {cfg.ClusterConfigs[k].PrimaryLabel : k \in ListedUnder(cfg, label)}

\* The destination-cluster mappings of a (project, domain).
MappingsOf(cfg, tCtx) ==
    {k \in 1..Len(cfg.DestinationClusterConfigs) :
        /\ cfg.DestinationClusterConfigs[k].Project = tCtx.Project
        /\ cfg.DestinationClusterConfigs[k].Domain = tCtx.Domain}

\* C12: the resolved namespace is fixed by (override, project, domain,
\* config): a non-empty override listed under a cluster config gives the
\* primary label of a config that lists it; otherwise a destination-cluster
\* mapping of (project, domain) gives its label's primary label, or the
\* default when no config lists that label; otherwise the default. With the
\* scenario's table: teamA gives prod-1, (p, d) without override gives
\* prod-2, an unmapped task gives the default.
C12_NamespaceResolution ==
    last.op = "resolve" =>
        LET cfg == last.in.cfg
            tCtx == last.in.tCtx
            override == last.in.override
            out == last.out
        IN  /\ IF override # "" /\ ListedUnder(cfg, override) # {}
               THEN out \in PrimaryLabelsOf(cfg, override)
               ELSE IF MappingsOf(cfg, tCtx) # {}
                    THEN \E k \in MappingsOf(cfg, tCtx) :
                            LET label == cfg.DestinationClusterConfigs[k].ClusterLabel
                            IN  IF ListedUnder(cfg, label) # {}
                                THEN out \in PrimaryLabelsOf(cfg, label)
                                ELSE out = "default"
               ELSE out = "default"
            /\ (cfg = quboleCfg /\ override = "teamA") => out = "prod-1"
            /\ (cfg = quboleCfg /\ override = ""
                  /\ tCtx.Project = "p" /\ tCtx.Domain = "d") => out = "prod-2"
            /\ (cfg = quboleCfg /\ override = "" /\ tCtx.Project = "q")
                  => out = "default"

\* An override that no config lists, resolved through (p, d) to prod-2.
C12_Witness ==
    /\ last.op = "resolve"
    /\ last.in.cfg = quboleCfg
    /\ last.in.override = "teamC"
    /\ last.in.tCtx.Project = "p" /\ last.in.tCtx.Domain = "d"
    /\ last.out = "prod-2"

\* The namespace each task resolves to under quboleCfg.
TaskNamespace ==
    [t \in Tasks |-> IF t = "t2" THEN "prod-2" ELSE "prod-1"]

AdmittedIn(st, lc, ns) ==
    {t \in Tasks : /\ TaskNamespace[t] = ns
                   /\ lc[t] \in {"running", "aborted"}
                   /\ st[t].Phase \in {1, 2}}

\* C14: with several tasks ticked, aborted and finalized in any order, the
\* allocator's holdings change only in a step that made an allocate or
\* release call for (the task's namespace, the task's id), and only in that
\* token; a task that is not finalized and is Queued or Submitted holds its
\* token; so in every namespace the tasks not finalized that are Queued or
\* Submitted number at most the namespace's quota.
C14_QuotaRespected ==
    [][ /\ held' # held =>
              \E c \in last'.calls :
                 /\ c.fn \in {"AllocateResource", "ReleaseResource"}
                 /\ c.ns = TaskNamespace[last'.task]
                 /\ c.id = last'.task
                 /\ (held' \ held) \cup (held \ held') = {<<c.ns, c.id>>}
        /\ \A t \in Tasks :
              t \in AdmittedIn(state', lifecycle', TaskNamespace[t])
                 => <<TaskNamespace[t], t>> \in held'
        /\ \A ns \in {"prod-1", "prod-2", "default"} :
              Cardinality(AdmittedIn(state', lifecycle', ns)) <= NamespaceQuota
      ]_vars

\* t3 is turned down for the quota of prod-1 while t1 is Queued there and
\* t2 is Queued in prod-2.
C14_Witness ==
    /\ last.op = "tick" /\ last.task = "t3"
    /\ \E c \in last.calls : c.res = "NamespaceQuotaExceeded"
    /\ state["t3"].Phase = 0
    /\ state["t1"].Phase = 1 /\ lifecycle["t1"] = "running"
    /\ state["t2"].Phase = 1 /\ lifecycle["t2"] = "running"
    /\ held = {<<"prod-1", "t1">>, <<"prod-2", "t2">>}

\* C15: when the orchestrator keeps ticking the task and the allocator,
\* the backend's create and the cache's refresh eventually do their part,
\* the task reaches Succeeded or Failed and stays there.
C15_EventuallyTerminal ==
    <>[](state["t1"].Phase \in {3, 4})

\* A tick takes the task from Submitted to Failed after creates that
\* failed.
C15_Witness ==
    /\ last.op = "tick" /\ last.task = "t1"
    /\ last.in.Phase = 2
    /\ state["t1"].Phase = 4
    /\ state["t1"].CreationFailureCount > 0

\* C16: a Queued tick whose create succeeds returns Submitted with the
\* command id and URI of the command the backend created, after calling
\* GetOrCreate with the task's id and that Submitted state as seed; when
\* the call fails the tick returns an error; so a tick that returns
\* Submitted without error leaves a cache entry under the task's id.
C16_SubmittedIsRegistered ==
    (last.op = "tick" /\ last.in.Phase = 1) =>
        /\ \A c \in last.calls :
              (c.fn = "ExecuteHiveCommand" /\ c.res = "ok") =>
                 /\ last.out.Phase = 2
                 /\ last.out.CommandId = c.cmd
                 /\ last.out.URI = <<"u">> \o c.cmd
                 /\ \E d \in commands :
                       d.Owner = last.task /\ FormatInt(d.ID) = c.cmd
                 /\ \E g \in last.calls :
                       /\ g.fn = "GetOrCreate"
                       /\ g.id = last.task
                       /\ g.seed = last.out
                       /\ g.res = "error" => last.err # "nil"
                       /\ last.err = "nil" => g.res = "ok"
        /\ (last.err = "nil" /\ last.out.Phase = 2) =>
              /\ last.task \in DOMAIN cache
              /\ \E c \in last.calls : c.fn = "ExecuteHiveCommand" /\ c.res = "ok"

\* A Queued tick created a command, registered it and returned Submitted.
C16_Witness ==
    /\ last.op = "tick" /\ last.in.Phase = 1
    /\ last.err = "nil" /\ last.out.Phase = 2
    /\ last.task \in DOMAIN cache
    /\ cache[last.task].ExecutionState = last.out

\* C17 (as claimed): once the state of a task has a non-empty command id,
\* every later state of the task has the same command id.
C17_CommandIdImmutable ==
    [][ \A t \in Tasks :
           state[t].CommandId # <<>> =>
              state'[t].CommandId = state[t].CommandId ]_vars

\* C18: a Submitted tick makes one call, GetOrCreate with the task's id and
\* the current state as seed, and no call to the backend or the allocator;
\* without error it returns the state of the entry: the entry that was
\* there, left as it was, or else the current state, now stored as the
\* entry.
C18_MonitorReadsCacheOnly ==
    [][ (last'.op = "tick" /\ last'.in.Phase = 2) =>
            LET t == last'.task
            IN  /\ last'.in = state[t]
                /\ Cardinality(last'.calls) = 1
                /\ \A g \in last'.calls :
                      g.fn = "GetOrCreate" /\ g.id = t /\ g.seed = state[t]
                /\ held' = held /\ commands' = commands /\ killed' = killed
                /\ last'.err = "nil" =>
                      IF t \in DOMAIN cache
                      THEN /\ last'.out = cache[t].ExecutionState
                           /\ cache' = cache
                      ELSE /\ last'.out = state[t]
                           /\ t \in DOMAIN cache'
                           /\ cache'[t].ExecutionState = state[t] ]_vars

\* A Submitted tick returned the refreshed entry: Succeeded, after a failed
\* sync the seed did not have.
C18_Witness ==
    /\ last.op = "tick" /\ last.in.Phase = 2 /\ last.err = "nil"
    /\ last.out.Phase = 3
    /\ last.out.SyncFailureCount > last.in.SyncFailureCount

\* C19: a tick makes the one transition of its input phase: from
\* NotStarted it returns NotStarted or Queued and calls only the allocator,
\* from Queued it returns Queued or Submitted, from Submitted it returns
\* Submitted, Succeeded or Failed, from a terminal phase it returns the
\* state as it is and calls nothing. The backend's create is called only
\* from Queued with the task's token held, and the cache only from Queued
\* or Submitted when a command of the task exists.
C19_OneTransitionInOrder ==
    last.op = "tick" =>
        /\ last.in.Phase = 0 =>
              /\ last.out.Phase \in {0, 1}
              /\ \A c \in last.calls : c.fn = "AllocateResource"
        /\ last.in.Phase = 1 => last.out.Phase \in {1, 2}
        /\ last.in.Phase = 2 => last.out.Phase \in {2, 3, 4}
        /\ last.in.Phase \in {3, 4} =>
              last.out = last.in /\ last.calls = {}
        /\ \A c \in last.calls :
              /\ c.fn = "ExecuteHiveCommand" =>
                    /\ last.in.Phase = 1
                    /\ <<TaskNamespace[last.task], last.task>> \in held
              /\ c.fn = "GetOrCreate" =>
                    /\ last.in.Phase \in {1, 2}
                    /\ \E d \in commands : d.Owner = last.task

\* A Queued tick, after a failed create, creates the command while the
\* task holds its token and returns Submitted.
C19_Witness ==
    /\ last.op = "tick" /\ last.in.Phase = 1 /\ last.out.Phase = 2
    /\ last.in.CreationFailureCount > 0
    /\ \E c \in last.calls : c.fn = "ExecuteHiveCommand" /\ c.res = "ok"
    /\ <<"prod-1", last.task>> \in held

\* C20 (as claimed): every error a tick returns carries one of the kinds
\* BadTaskSpecification, ResourceManagerFailure, CacheFailed and
\* RuntimeFailure, and a tick whose GetOrCreate call failed, in Queued as in
\* Submitted, returns CacheFailed.
C20_ErrorsTagged ==
    (last.op = "tick" /\ last.err # "nil") =>
        /\ last.err \in {"BadTaskSpecification", "ResourceManagerFailure",
                         "CacheFailed", "RuntimeFailure"}
        /\ (\E c \in last.calls : c.fn = "GetOrCreate" /\ c.res = "error")
              => last.err = "CacheFailed"

\* C21 (as claimed): every tick in Queued or Submitted returns an error or
\* a state with a strictly later phase.
C21_QueuedSubmittedAdvanceOrFail ==
    (last.op = "tick" /\ last.in.Phase \in {1, 2}) =>
        (last.err # "nil" \/ last.out.Phase > last.in.Phase)

\* C21 (amended): a tick of a non-terminal task that returns no error and
\* does not advance the phase is an admission denial in NotStarted, a
\* failed create in Queued (which adds 1 to the creation failure count), or
\* a Submitted tick whose cache entry is still Submitted.
C21_NonAdvancingOutcomes ==
    (/\ last.op = "tick"
     /\ last.in.Phase \in {0, 1, 2}
     /\ last.err = "nil"
     /\ last.out.Phase <= last.in.Phase) =>
        \/ /\ last.in.Phase = 0
           /\ last.out.Phase = 0
           /\ \E c \in last.calls :
                 /\ c.fn = "AllocateResource"
                 /\ c.res \in {"Exhausted", "NamespaceQuotaExceeded"}
        \/ /\ last.in.Phase = 1
           /\ \E c \in last.calls :
                 c.fn = "ExecuteHiveCommand" /\ c.res = "error"
           /\ last.out =
                 [last.in EXCEPT !.CreationFailureCount =
                                     last.in.CreationFailureCount + 1]
        \/ /\ last.in.Phase = 2
           /\ last.out.Phase = 2
           /\ last.task \in DOMAIN cache
           /\ cache[last.task].ExecutionState = last.out

\* A Submitted tick returns the entry, still Submitted after a failed sync.
C21_Witness ==
    /\ last.op = "tick" /\ last.err = "nil"
    /\ last.in.Phase = 2 /\ last.out.Phase = 2
    /\ last.out.SyncFailureCount > last.in.SyncFailureCount

\* C22: a Queued tick that gets as far as the backend attempts the create
\* whatever the creation failure count is; when the create fails the tick
\* returns no error, stays Queued and adds 1 to the count, also above the
\* ceiling; the projector reports queued, with the count, up to a count of
\* 5 and a system-retryable failure from the 6th failure on.
C22_PersistentCreationFailure ==
    (last.op = "tick" /\ last.in.Phase = 1) =>
        /\ last.err = "nil" =>
              \E c \in last.calls : c.fn = "ExecuteHiveCommand"
        /\ (\E c \in last.calls : c.fn = "ExecuteHiveCommand" /\ c.res = "error")
              => /\ last.err = "nil"
                 /\ last.out.Phase = 1
                 /\ last.out.CreationFailureCount =
                       last.in.CreationFailureCount + 1
                 /\ IF last.out.CreationFailureCount <= 5
                    THEN /\ last.info.kind = "Queued"
                         /\ last.info.version = last.out.CreationFailureCount
                    ELSE last.info.kind = "SystemRetryableFailure"

\* The create fails again after the ceiling was exceeded: the 7th failure,
\* still Queued, projected as a system-retryable failure.
C22_Witness ==
    /\ last.op = "tick" /\ last.in.Phase = 1
    /\ last.in.CreationFailureCount = 6
    /\ last.out.CreationFailureCount = 7
    /\ last.out.Phase = 1
    /\ last.info.kind = "SystemRetryableFailure"
    /\ \E c \in last.calls : c.fn = "ExecuteHiveCommand" /\ c.res = "error"

\* C23: the projector maps NotStarted to not-ready, Queued to queued (a
\* system-retryable failure above the ceiling), Submitted to running,
\* QuerySucceeded to success and QueryFailed to a failure with code
\* DownstreamSystemError; for the last three the task info holds one log
\* with the command id and the URI when the command id is non-empty, and is
\* absent when it is empty; it calls no collaborator.
C23_Projector ==
    last.op = "project" =>
        LET s == last.in
            info == last.info
        IN  /\ last.calls = {}
            /\ s.Phase = 0 => info.kind = "NotReady"
            /\ s.Phase = 1 =>
                  info.kind = IF s.CreationFailureCount > 5
                              THEN "SystemRetryableFailure" ELSE "Queued"
            /\ s.Phase = 2 => info.kind = "Running"
            /\ s.Phase = 3 => info.kind = "Success"
            /\ s.Phase = 4 =>
                  info.kind = "Failure" /\ info.code = "DownstreamSystemError"
            /\ s.Phase \in {2, 3, 4} =>
                  IF s.CommandId # <<>>
                  THEN /\ ~info.info.isNil
                       /\ Len(info.info.Logs) = 1
                       /\ info.info.Logs[1].Name = <<s.Phase, s.CommandId>>
                       /\ info.info.Logs[1].Uri = s.URI
                  ELSE info.info.isNil

\* A Submitted state without command id is projected as running, without
\* task info.
C23_Witness ==
    /\ last.op = "project"
    /\ last.in.Phase = 2 /\ last.in.CommandId = <<>>
    /\ last.info.kind = "Running"
    /\ last.info.info.isNil

C25_AbortFinalizeIndependent ==
    [][ /\ last'.op = "abort" =>
              /\ held' = held
              /\ \A c \in last'.calls : c.fn = "KillCommand"
        /\ last'.op \in {"finalize", "refinalize"} =>
              /\ killed' = killed
              /\ commands' = commands
              /\ \A c \in last'.calls : c.fn = "ReleaseResource"
        /\ (last'.op = "finalize" /\ last.op = "abort" /\ last.err # "nil") =>
              /\ last'.afterFailedAbort
              /\ last'.err # "ResourceManagerFailure" =>
                    \E c \in last'.calls :
                       /\ c.fn = "ReleaseResource"
                       /\ c.ns = TaskNamespace[last'.task]
                       /\ c.id = last'.task
              /\ last'.err = "nil" =>
                    <<TaskNamespace[last'.task], last'.task>> \notin held' ]_vars

\* The cancel of a Submitted task's command failed; the Finalize that
\* follows releases the token.
C25_Witness ==
    /\ last.op = "finalize" /\ last.afterFailedAbort
    /\ last.in.Phase = 2
    /\ last.err = "nil"
    /\ \E c \in last.calls : c.fn = "ReleaseResource" /\ c.res = "ok"
    /\ held = {}

\* C26: a tick, Abort or Finalize of a task leaves every other task's
\* execution state, cache entry and token as they are, and each of its
\* allocator and cache calls is keyed by its own generated id.
C26_TasksIsolated ==
    [][ last'.op \in {"tick", "abort", "finalize", "refinalize"} =>
            /\ \A c \in last'.calls :
                  c.fn \in {"AllocateResource", "ReleaseResource", "GetOrCreate"}
                     => c.id = last'.task
            /\ \A b \in Tasks \ {last'.task} :
                  /\ state'[b] = state[b]
                  /\ (b \in DOMAIN cache') <=> (b \in DOMAIN cache)
                  /\ b \in DOMAIN cache => cache'[b] = cache[b]
                  /\ {p \in held' : p[2] = b} = {p \in held : p[2] = b} ]_vars

\* t1's Submitted tick returns its own entry, still Submitted, while the
\* entry of t2 has been refreshed to Succeeded and t2 is still Submitted.
C26_Witness ==
    /\ last.op = "tick" /\ last.task = "t1"
    /\ last.in.Phase = 2 /\ last.out.Phase = 2
    /\ state["t2"].Phase = 2
    /\ "t2" \in DOMAIN cache
    /\ cache["t2"].ExecutionState.Phase = 3
    /\ cache["t1"].ExecutionState.Phase = 2

\* C27: for each task, the namespace of its allocate call, the cluster
\* label of its create call and the namespace of its release call are the
\* one namespace the task resolves to, with the task's id in the allocate
\* and release calls; so every token held, every command created and every
\* pair released carries that namespace.
C27_SameNamespaceEverywhere ==
    /\ \A c \in last.calls :
          /\ c.fn \in {"AllocateResource", "ExecuteHiveCommand", "ReleaseResource"}
                => c.ns = TaskNamespace[last.task]
          /\ c.fn \in {"AllocateResource", "ReleaseResource"}
                => c.id = last.task
    /\ \A p \in held : p[1] = TaskNamespace[p[2]]
    /\ \A d \in commands : d.Label = TaskNamespace[d.Owner]

\* t2, resolved through its project and domain to prod-2, was granted its
\* token there, created its command with that label, and the Finalize
\* releases (prod-2, t2).
C27_Witness ==
    /\ last.op = "finalize" /\ last.task = "t2" /\ last.err = "nil"
    /\ \E c \in last.calls :
          c.fn = "ReleaseResource" /\ c.ns = "prod-2" /\ c.id = "t2"
    /\ \E d \in commands : d.Owner = "t2" /\ d.Label = "prod-2"
    /\ <<"prod-2", "t2">> \notin held

\* C28 (as claimed): after a tick that created a backend command for a
\* task, the state the orchestrator holds for the task records that
\* command's id.
C28_NoOrphanedCommand ==
    last.op = "tick" =>
        \A c \in last.calls :
           (c.fn = "ExecuteHiveCommand" /\ c.res = "ok") =>
              state[last.task].CommandId = c.cmd

====
